---- MODULE Spec2Model ----
(***************************************************************************)
(* simple_hv: the control core of a minimal RISC-V hypervisor.             *)
(*                                                                         *)
(* main() loads a guest image, prepares the guest context, activates the   *)
(* stage-2 translation and then loops { _run_guest; vmexit_handler } until *)
(* the handler returns true.                                               *)
(*                                                                         *)
(* A 64-bit register value (usize) is a tuple of four 16-bit limbs, most   *)
(* significant first: 0x0000_0000_8020_0000 is <<0, 0, \h8020, 0>>.         *)
(***************************************************************************)
EXTENDS Integers, Sequences, FiniteSets

(***************************************************************************)
(* 64-bit words                                                            *)
(***************************************************************************)
Limb == 2^16

W(l3, l2, l1, l0) == <<l3, l2, l1, l0>>

W0 == W(0, 0, 0, 0)

\* usize addition of a small constant, wrapping modulo 2^64.
Add64(w, n) ==
    LET s4 == w[4] + n
        s3 == w[3] + (s4 \div Limb)
        s2 == w[2] + (s3 \div Limb)
        s1 == w[1] + (s2 \div Limb)
    IN  <<s1 % Limb, s2 % Limb, s3 % Limb, s4 % Limb>>

\* `x as u32`: the low 32 bits, as two limbs.
AsU32(w) == <<w[3], w[4]>>

Bit(x, b) == (x \div (2^b)) % 2

BitOr16(a, b) ==
    LET f[i \in 0..16] ==
            IF i = 16 THEN 0
            ELSE (IF Bit(a, i) = 1 \/ Bit(b, i) = 1 THEN 2^i ELSE 0) + f[i + 1]
    IN  f[0]

BitAndNot16(a, b) ==
    LET f[i \in 0..16] ==
            IF i = 16 THEN 0
            ELSE (IF Bit(a, i) = 1 /\ Bit(b, i) = 0 THEN 2^i ELSE 0) + f[i + 1]
    IN  f[0]

\* x | y
Or64(x, y) == [i \in 1..4 |-> BitOr16(x[i], y[i])]

\* x & !y
AndNot64(x, y) == [i \in 1..4 |-> BitAndNot16(x[i], y[i])]

\* x >> 12
Shr12(w) ==
    [i \in 1..4 |->
        (w[i] \div 4096) + (IF i = 1 THEN 0 ELSE (w[i - 1] % 4096) * 16)]

\* whether every bit of mask is set in w
HasBits(w, mask) == Or64(w, mask) = w

(***************************************************************************)
(* Program constants                                                       *)
(***************************************************************************)
VM_ENTRY == W(0, 0, \h8020, 0)

\* the emulated instruction word 0xf14025f3 (a u32)
SENTINEL_INSTR == <<\hf140, \h25f3>>

\* the two values the sentinel emulation deposits / the shutdown signature
SIG_A0 == W(0, 0, 0, \h6688)

SIG_A1 == W(0, 0, 0, \h1234)

\* 8usize << 60: the hgatp mode tag
HGATP_MODE == W(\h8000, 0, 0, 0)

\* hstatus::spv::Guest (bit 7) and hstatus::spvp::Supervisor (bit 8)
HSTATUS_SPV == W(0, 0, 0, \h0080)

HSTATUS_SPVP == W(0, 0, 0, \h0100)

\* sstatus::SPP::Supervisor (bit 8)
SSTATUS_SPP == W(0, 0, 0, \h0100)

\* traps::interrupt::VIRTUAL_SUPERVISOR_TIMER (bit 6), SUPERVISOR_TIMER (bit 5)
VIRTUAL_SUPERVISOR_TIMER == W(0, 0, 0, \h0040)

SUPERVISOR_TIMER == W(0, 0, 0, \h0020)

\* the system-reset extension and function identifiers of the call convention
EXT_RESET == W(0, 0, \h5352, \h5354)

FN_SYSTEM_RESET == W0

(***************************************************************************)
(* Trap causes (scause.cause())                                            *)
(***************************************************************************)
Exception(code) == [interrupt |-> FALSE, code |-> code]

Interrupt(code) == [interrupt |-> TRUE, code |-> code]

VirtualSupervisorEnvCall == Exception(10)

IllegalInstruction == Exception(2)

LoadGuestPageFault == Exception(21)

SupervisorTimer == Interrupt(5)

\* causes the dispatcher has no arm for
LoadFault == Exception(5)

StoreGuestPageFault == Exception(23)

SupervisorExternal == Interrupt(9)

OtherCauses == {LoadFault, StoreGuestPageFault, SupervisorExternal}

(***************************************************************************)
(* Guest registers                                                         *)
(***************************************************************************)
Regs == {"A0", "A1", "A2", "A6", "A7"}

\* GeneralPurposeRegisters::a_regs(): the argument registers, by position
ARegs(gprs) == [a0 |-> gprs["A0"], a1 |-> gprs["A1"],
                a6 |-> gprs["A6"], a7 |-> gprs["A7"]]

\* VmCpuRegisters::default()
DefaultCtx ==
    [gprs |-> [r \in Regs |-> W0], sepc |-> W0, hstatus |-> W0, sstatus |-> W0]

(***************************************************************************)
(* Bounds of the model                                                     *)
(***************************************************************************)
\* the number of guest entries (_run_guest calls) explored in one run
MaxExits == 3

(***************************************************************************)
(* State                                                                   *)
(***************************************************************************)
VARIABLES
    pc,         \* position of main(): load, prepare_ctx, csrw_hgatp, hfence,
                \* run_guest, vmexit, exit_loop, halted
    ctx,        \* VmCpuRegisters: guest_regs.{gprs, sepc, hstatus, sstatus}
    scause,     \* CSR scause, decoded
    stval,      \* CSR stval
    hgatp,      \* CSR hgatp
    hvip,       \* CSR hvip
    sie,        \* CSR sie
    hstatus,    \* CSR hstatus
    sstatus,    \* CSR sstatus
    ept_root,   \* uspace.page_table_root()
    panic_msg,  \* the panic that ended the run, "" while running
    s2log,      \* history: the stage-2 activation instructions executed
    entries,    \* history: the number of _run_guest calls
    exits       \* history: one record per vmexit_handler call

vars == <<pc, ctx, scause, stval, hgatp, hvip, sie, hstatus, sstatus,
          ept_root, panic_msg, s2log, entries, exits>>

(***************************************************************************)
(* State of the two library components, modelled further down: the         *)
(* EarlyAllocator of modules/bump_allocator and the HashMap of axstd.       *)
(* Each component has a specification of its own; the other components     *)
(* stay as constructed.                                                    *)
(***************************************************************************)
VARIABLES
    ea,         \* EarlyAllocator: start, end, b_pos, p_pos, count
    ea_hist,    \* history: calls made on ea, live allocations, last call
    hm,         \* HashMap: buckets, size
    hm_hist     \* history: the inserts made on hm and the reference map

libvars == <<ea, ea_hist, hm, hm_hist>>

allvars == <<vars, libvars>>

\* EarlyAllocator::new()
EarlyAllocatorNew ==
    [start |-> 0, end |-> 0, b_pos |-> 0, p_pos |-> 0, count |-> 0]

EaHistNew ==
    [inited |-> FALSE, checks |-> FALSE, panicked |-> FALSE, nops |-> 0,
     allocs |-> 0, deallocs |-> 0, ignored |-> 0,
     next_id |-> 1, live |-> {}, pages |-> {}, misuse |-> FALSE,
     last |-> [op |-> "new"]]

\* HashMap::new(): 64 empty buckets
INITIAL_CAPACITY == 64

None == <<>>

\* full: insert has panicked with "HashMap full!"
HashMapNew ==
    [buckets |-> [i \in 1..INITIAL_CAPACITY |-> None], size |-> 0,
     full |-> FALSE]

\* work: the caller's workload, pos: how many of its keys were inserted,
\* ref: the reference map (key to value), last: the last call
HmHistNew == [work |-> "", pos |-> 0, ref |-> <<>>, last |-> [op |-> "new"]]

AllocatorAsConstructed == ea = EarlyAllocatorNew /\ ea_hist = EaHistNew

HashMapAsConstructed == hm = HashMapNew /\ hm_hist = HmHistNew

\* values the control registers may hold when main() starts
HstatusBoot == {W0, W(0, 2, 0, \h0180)}

SstatusBoot == {W(0, 2, 0, \h0002), W(0, 2, 0, \h0122)}

SieBoot == {W(0, 0, 0, \h0222)}

HvipBoot == {W(0, 0, 0, \h0400)}

\* page-aligned physical addresses of a stage-2 root table
RootVals == {W(0, 0, \h8064, \h1000), W(0, \h0001, \h2345, \h6000)}

Init ==
    /\ pc = "load"
    /\ ctx = DefaultCtx
    /\ scause = Exception(0)
    /\ stval = W0
    /\ hgatp = W0
    /\ hvip \in HvipBoot
    /\ sie \in SieBoot
    /\ hstatus \in HstatusBoot
    /\ sstatus \in SstatusBoot
    /\ ept_root \in RootVals
    /\ panic_msg = ""
    /\ s2log = <<>>
    /\ entries = 0
    /\ exits = <<>>
    /\ AllocatorAsConstructed
    /\ HashMapAsConstructed

(***************************************************************************)
(* CallCodec: SbiMessage::from_regs                                        *)
(***************************************************************************)
SbiMessageFromRegs(args) ==
    IF args.a7 = EXT_RESET /\ args.a6 = FN_SYSTEM_RESET
    THEN [tag |-> "Reset", reason0 |-> args.a0, reason1 |-> args.a1]
    ELSE [tag |-> "Err"]

(***************************************************************************)
(* vmexit_handler: one operator per match arm.  Each yields the guest      *)
(* context, hvip and sie after the arm, the outcome ("Shutdown" for true,  *)
(* "Continue" for false, "Abort" for a panic) and the panic message.       *)
(***************************************************************************)
Result(c, hv, si, outcome, msg) ==
    [ctx |-> c, hvip |-> hv, sie |-> si, outcome |-> outcome, panic |-> msg]

\* mutant: the signature branch lacks its `return true` and falls through
M_EcallShutdownFallsThrough(c, hv, si) ==
    LET sbi_msg == SbiMessageFromRegs(ARegs(c.gprs))
    IN  IF sbi_msg.tag = "Err"
        THEN Result(c, hv, si, "Abort", "bad sbi message! ")
        ELSE IF sbi_msg.tag = "Reset" /\ c.gprs["A0"] # SIG_A0
        THEN Result(c, hv, si, "Abort", "assertion failed: a0 == 0x6688")
        ELSE IF sbi_msg.tag = "Reset" /\ c.gprs["A1"] # SIG_A1
        THEN Result(c, hv, si, "Abort", "assertion failed: a1 == 0x1234")
        ELSE Result(c, hv, si, "Continue", "")

\* mutant: the two assert_eq! are comparisons that skip the shutdown
M_EcallOtherResetContinues(c, hv, si) ==
    LET sbi_msg == SbiMessageFromRegs(ARegs(c.gprs))
    IN  IF sbi_msg.tag = "Err"
        THEN Result(c, hv, si, "Abort", "bad sbi message! ")
        ELSE IF sbi_msg.tag = "Reset" /\ c.gprs["A0"] = SIG_A0
                /\ c.gprs["A1"] = SIG_A1
        THEN Result(c, hv, si, "Shutdown", "")
        ELSE Result(c, hv, si, "Continue", "")

\* mutant: a call that does not decode is ignored
M_EcallBadMessageContinues(c, hv, si) ==
    LET sbi_msg == SbiMessageFromRegs(ARegs(c.gprs))
    IN  IF sbi_msg.tag = "Err"
        THEN Result(c, hv, si, "Continue", "")
        ELSE IF c.gprs["A0"] # SIG_A0
        THEN Result(c, hv, si, "Abort", "assertion failed: a0 == 0x6688")
        ELSE IF c.gprs["A1"] # SIG_A1
        THEN Result(c, hv, si, "Abort", "assertion failed: a1 == 0x1234")
        ELSE Result(c, hv, si, "Shutdown", "")

\* Trap::Exception(Exception::VirtualSupervisorEnvCall)
OnVirtualSupervisorEnvCall(c, hv, si) ==
    LET sbi_msg == SbiMessageFromRegs(ARegs(c.gprs))
        a0 == c.gprs["A0"]
        a1 == c.gprs["A1"]
    IN  IF sbi_msg.tag # "Err"
        THEN IF sbi_msg.tag = "Reset"
             THEN IF a0 # SIG_A0
                  THEN Result(c, hv, si, "Abort", "assertion failed: a0 == 0x6688")
                  ELSE IF a1 # SIG_A1
                  THEN Result(c, hv, si, "Abort", "assertion failed: a1 == 0x1234")
                  ELSE Result(c, hv, si, "Shutdown", "")
             ELSE Result(c, hv, si, "Continue", "")
        ELSE Result(c, hv, si, "Abort", "bad sbi message! ")

\* mutant: the emulation leaves sepc alone
M_IllegalNoPcAdvance(c, tval, hv, si) ==
    IF AsU32(tval) = SENTINEL_INSTR
    THEN Result([c EXCEPT !.gprs["A0"] = SIG_A0, !.gprs["A1"] = SIG_A1],
                hv, si, "Continue", "")
    ELSE Result(c, hv, si, "Abort", "Bad instruction")

\* mutant: every illegal instruction is emulated as the sentinel
M_IllegalSkipsAny(c, tval, hv, si) ==
    Result([c EXCEPT !.gprs["A0"] = SIG_A0,
                     !.gprs["A1"] = SIG_A1,
                     !.sepc = Add64(c.sepc, 4)],
           hv, si, "Continue", "")

\* Trap::Exception(Exception::IllegalInstruction)
OnIllegalInstruction(c, tval, hv, si) ==
    LET instr == AsU32(tval)
    IN  IF instr = SENTINEL_INSTR
        THEN Result([c EXCEPT !.gprs["A0"] = SIG_A0,
                              !.gprs["A1"] = SIG_A1,
                              !.sepc = Add64(c.sepc, 4)],
                    hv, si, "Continue", "")
        ELSE Result(c, hv, si, "Abort", "Bad instruction")

\* mutant: the fault is reported as handled without skipping the load
M_LoadFaultNoAdvance(c, hv, si) ==
    Result(c, hv, si, "Continue", "")

\* Trap::Exception(Exception::LoadGuestPageFault)
OnLoadGuestPageFault(c, hv, si) ==
    Result([c EXCEPT !.sepc = Add64(c.sepc, 4)], hv, si, "Continue", "")

\* mutant: the timer arm skips an instruction like the exception arms
M_TimerAdvancesPc(c, hv, si) ==
    Result([c EXCEPT !.sepc = Add64(c.sepc, 4)],
           Or64(hv, VIRTUAL_SUPERVISOR_TIMER),
           AndNot64(si, SUPERVISOR_TIMER), "Continue", "")

\* mutant: the host timer enable is left set
M_TimerKeepsHostEnable(c, hv, si) ==
    Result(c, Or64(hv, VIRTUAL_SUPERVISOR_TIMER), si, "Continue", "")

\* Trap::Interrupt(Interrupt::SupervisorTimer)
OnSupervisorTimer(c, hv, si) ==
    Result(c, Or64(hv, VIRTUAL_SUPERVISOR_TIMER),
           AndNot64(si, SUPERVISOR_TIMER), "Continue", "")

\* the `_` arm
OnUnhandledTrap(c, hv, si) ==
    Result(c, hv, si, "Abort", "Unhandled trap")

\* mutant: the match looks at the cause code and not at the interrupt flag
M_HandlerMatchesCodeOnly(c, cause, tval, hv, si) ==
    CASE cause.code = 10 -> OnVirtualSupervisorEnvCall(c, hv, si)
      [] cause.code = 2 -> OnIllegalInstruction(c, tval, hv, si)
      [] cause.code = 21 -> OnLoadGuestPageFault(c, hv, si)
      [] cause.code = 5 -> OnSupervisorTimer(c, hv, si)
      [] OTHER -> OnUnhandledTrap(c, hv, si)

vmexit_handler(c, cause, tval, hv, si) ==
    CASE cause = VirtualSupervisorEnvCall -> OnVirtualSupervisorEnvCall(c, hv, si)
      [] cause = IllegalInstruction -> OnIllegalInstruction(c, tval, hv, si)
      [] cause = LoadGuestPageFault -> OnLoadGuestPageFault(c, hv, si)
      [] cause = SupervisorTimer -> OnSupervisorTimer(c, hv, si)
      [] OTHER -> OnUnhandledTrap(c, hv, si)

\* mutant: the loop does not look at the handler's result
M_LoopIgnoresShutdown(outcome) ==
    CASE outcome \in {"Continue", "Shutdown"} -> "run_guest"
      [] OTHER -> "halted"

\* mutant: `while run_guest(&mut ctx) {}`
M_LoopInverted(outcome) ==
    CASE outcome = "Continue" -> "exit_loop"
      [] outcome = "Shutdown" -> "run_guest"
      [] OTHER -> "halted"

\* `while !run_guest(&mut ctx) {}` followed by the final panic
LoopNext(outcome) ==
    CASE outcome = "Continue" -> "run_guest"
      [] outcome = "Shutdown" -> "exit_loop"
      [] OTHER -> "halted"

(***************************************************************************)
(* The guest: what one _run_guest call can leave behind.  The guest runs   *)
(* from the restored context until it traps; the hardware deposits the     *)
(* cause, the trap value and the trapping pc, and the trampoline saves the *)
(* guest's general registers into ctx.                                     *)
(***************************************************************************)
\* a guest register file with the given argument registers
GuestGprs(a0, a1, a6, a7) ==
    [r \in Regs |->
        CASE r = "A0" -> a0
          [] r = "A1" -> a1
          [] r = "A6" -> a6
          [] r = "A7" -> a7
          [] OTHER -> W(0, 0, 0, \h00a2)]

\* the highest instruction address: pc + 4 wraps to 0 there
TopAddr == W(\hffff, \hffff, \hffff, \hfffc)

\* where the guest may trap: at the resume point, or after a jump
TrapPcs(c) == {c.sepc, TopAddr}

\* register files of a guest issuing a hypervisor call
EcallGprs ==
    {GuestGprs(a0, a1, a6, a7) :
        a0 \in {SIG_A0, W0, W(0, 1, 0, \h6688)},
        a1 \in {SIG_A1, W0},
        a6 \in {FN_SYSTEM_RESET, W(0, 0, 0, 1)},
        a7 \in {EXT_RESET, W(0, 0, 0, 8)}}

\* trap values of an illegal-instruction trap: the sentinel word (csrr a1,
\* mhartid), the sentinel word below set upper bits, csrr a1, mstatus, wfi,
\* and zero
IllegalStvals ==
    {W(0, 0, \hf140, \h25f3), W(0, 1, \hf140, \h25f3),
     W(0, 0, \h3000, \h25f3), W(0, 0, \h1050, \h0073), W0}

\* faulting addresses of a guest page fault
FaultStvals == {W(0, 0, 0, \h0040), W(0, 0, \h9000, 0)}

GuestExit(cause, tval, gprs, sepc) ==
    [cause |-> cause, stval |-> tval, gprs |-> gprs, sepc |-> sepc]

GuestExits(c, si) ==
    {GuestExit(VirtualSupervisorEnvCall, W0, g, c.sepc) :
        g \in EcallGprs \cup {c.gprs}}
    \cup {GuestExit(IllegalInstruction, t, c.gprs, p) :
        t \in IllegalStvals, p \in TrapPcs(c)}
    \cup {GuestExit(LoadGuestPageFault, t, c.gprs, p) :
        t \in FaultStvals, p \in TrapPcs(c)}
    \cup {GuestExit(SupervisorTimer, W0, c.gprs, p) :
        p \in IF HasBits(si, SUPERVISOR_TIMER) THEN {c.sepc} ELSE {}}
    \cup {GuestExit(cause, W0, c.gprs, c.sepc) : cause \in OtherCauses}

(***************************************************************************)
(* main()                                                                  *)
(***************************************************************************)
\* new_user_aspace().unwrap() and load_vm_image("/sbin/skernel2", ..)
LoadVmImage ==
    /\ pc = "load"
    /\ UNCHANGED libvars
    /\ \E ok \in BOOLEAN :
        IF ok
        THEN pc' = "prepare_ctx" /\ panic_msg' = panic_msg
        ELSE pc' = "halted" /\ panic_msg' = "Cannot load app!"
    /\ UNCHANGED <<ctx, scause, stval, hgatp, hvip, sie, hstatus, sstatus,
                   ept_root, s2log, entries, exits>>

\* mutant: the previous-privilege bit of sstatus is not set
M_PrepareWithoutSpp(c, hs, ss) ==
    [c EXCEPT !.hstatus = Or64(Or64(hs, HSTATUS_SPV), HSTATUS_SPVP),
              !.sstatus = ss,
              !.sepc = VM_ENTRY]

\* prepare_guest_context(&mut ctx)
prepare_guest_context(c, hs, ss) ==
    [c EXCEPT !.hstatus = Or64(Or64(hs, HSTATUS_SPV), HSTATUS_SPVP),
              !.sstatus = Or64(ss, SSTATUS_SPP),
              !.sepc = VM_ENTRY]

PrepareGuestContext ==
    /\ pc = "prepare_ctx"
    /\ UNCHANGED libvars
    /\ ctx' = prepare_guest_context(DefaultCtx, hstatus, sstatus)
    /\ hstatus' = ctx'.hstatus
    /\ pc' = "csrw_hgatp"
    /\ UNCHANGED <<scause, stval, hgatp, hvip, sie, sstatus, ept_root,
                   panic_msg, s2log, entries, exits>>

\* prepare_vm_pgtable: the value written to hgatp
HgatpValue(root) == Or64(HGATP_MODE, Shr12(root))

\* mutant: prepare_vm_pgtable without the fence
M_CsrwHgatpNoFence ==
    /\ pc = "csrw_hgatp"
    /\ UNCHANGED libvars
    /\ hgatp' = Or64(HGATP_MODE, Shr12(ept_root))
    /\ s2log' = Append(s2log, "csrw")
    /\ pc' = "run_guest"
    /\ UNCHANGED <<ctx, scause, stval, hvip, sie, hstatus, sstatus, ept_root,
                   panic_msg, entries, exits>>

\* prepare_vm_pgtable: csrw hgatp
CsrwHgatp ==
    /\ pc = "csrw_hgatp"
    /\ UNCHANGED libvars
    /\ hgatp' = HgatpValue(ept_root)
    /\ s2log' = Append(s2log, "csrw")
    /\ pc' = "hfence"
    /\ UNCHANGED <<ctx, scause, stval, hvip, sie, hstatus, sstatus, ept_root,
                   panic_msg, entries, exits>>

\* prepare_vm_pgtable: hfence_gvma_all()
HfenceGvmaAll ==
    /\ pc = "hfence"
    /\ UNCHANGED libvars
    /\ s2log' = Append(s2log, "hfence")
    /\ pc' = "run_guest"
    /\ UNCHANGED <<ctx, scause, stval, hgatp, hvip, sie, hstatus, sstatus,
                   ept_root, panic_msg, entries, exits>>

\* run_guest: _run_guest(ctx) returns when the guest has trapped
RunGuest ==
    /\ pc = "run_guest"
    /\ UNCHANGED libvars
    /\ entries < MaxExits
    /\ \E e \in GuestExits(ctx, sie) :
        /\ ctx' = [ctx EXCEPT !.gprs = e.gprs, !.sepc = e.sepc]
        /\ scause' = e.cause
        /\ stval' = e.stval
    /\ entries' = entries + 1
    /\ pc' = "vmexit"
    /\ UNCHANGED <<hgatp, hvip, sie, hstatus, sstatus, ept_root, panic_msg,
                   s2log, exits>>

\* run_guest: vmexit_handler(ctx), and the loop condition on its result
VmexitHandler ==
    /\ pc = "vmexit"
    /\ UNCHANGED libvars
    /\ LET r == vmexit_handler(ctx, scause, stval, hvip, sie)
       IN  /\ ctx' = r.ctx
           /\ hvip' = r.hvip
           /\ sie' = r.sie
           /\ panic_msg' = r.panic
           /\ pc' = LoopNext(r.outcome)
           /\ exits' = Append(exits,
                  [scause |-> scause, stval |-> stval, pre |-> ctx,
                   post |-> r.ctx, hvip |-> r.hvip, sie |-> r.sie,
                   outcome |-> r.outcome])
    /\ UNCHANGED <<scause, stval, hgatp, hstatus, sstatus, ept_root, s2log,
                   entries>>

\* panic!("Hypervisor ok!")
HypervisorOk ==
    /\ pc = "exit_loop"
    /\ UNCHANGED libvars
    /\ panic_msg' = "Hypervisor ok!"
    /\ pc' = "halted"
    /\ UNCHANGED <<ctx, scause, stval, hgatp, hvip, sie, hstatus, sstatus,
                   ept_root, s2log, entries, exits>>

Next ==
    \/ LoadVmImage
    \/ PrepareGuestContext
    \/ CsrwHgatp
    \/ HfenceGvmaAll
    \/ RunGuest
    \/ VmexitHandler
    \/ HypervisorOk

Spec == Init /\ [][Next]_allvars

(***************************************************************************)
(* Properties.  They read the history in exits: exits[i].pre and .post are *)
(* the guest context before and after the i-th vmexit_handler call.        *)
(***************************************************************************)
\* the exit is a hypervisor call from the guest supervisor
IsEcall(e) == e.scause = [interrupt |-> FALSE, code |-> 10]

\* the exit is a hypervisor call that decodes to a reset request
IsResetCall(e) ==
    IsEcall(e) /\ SbiMessageFromRegs(ARegs(e.pre.gprs)).tag = "Reset"

\* guest A0, A1 hold the shutdown signature (0x6688, 0x1234)
HasSignature(gprs) ==
    gprs["A0"] = <<0, 0, 0, \h6688>> /\ gprs["A1"] = <<0, 0, 0, \h1234>>

\* the exit is an illegal-instruction trap
IsIllegal(e) == e.scause = [interrupt |-> FALSE, code |-> 2]

\* the low 32 bits of the trap value are 0xf14025f3
IsSentinelWord(tval) == tval[3] = \hf140 /\ tval[4] = \h25f3

\* b = a + 4 modulo 2^64, limb by limb from the least significant
IsPlus4(a, b) ==
    LET c4 == a[4] >= 65532
        c3 == c4 /\ a[3] = 65535
        c2 == c3 /\ a[2] = 65535
    IN  /\ b[4] = IF c4 THEN a[4] - 65532 ELSE a[4] + 4
        /\ b[3] = IF c4 THEN (IF a[3] = 65535 THEN 0 ELSE a[3] + 1) ELSE a[3]
        /\ b[2] = IF c3 THEN (IF a[2] = 65535 THEN 0 ELSE a[2] + 1) ELSE a[2]
        /\ b[1] = IF c2 THEN (IF a[1] = 65535 THEN 0 ELSE a[1] + 1) ELSE a[1]

\* the i-th exit ended the run with a panic: it is the last exit, the guest
\* was not entered again, and the handler left the guest context alone
AbortedAt(i, msgs) ==
    /\ exits[i].outcome = "Abort"
    /\ exits[i].post = exits[i].pre
    /\ i = Len(exits)
    /\ entries = i
    /\ pc = "halted"
    /\ panic_msg \in msgs

\* C1: a hypervisor call that decodes to a reset request with guest A0, A1
\* equal to (0x6688, 0x1234) makes vmexit_handler return Shutdown, and from
\* then on _run_guest is never called again: the exit is the last one, the
\* number of guest entries stays at its index, and main is past the loop.
C1_ShutdownIsPermanent ==
    \A i \in DOMAIN exits :
        (IsResetCall(exits[i]) /\ HasSignature(exits[i].pre.gprs)) =>
            /\ exits[i].outcome = "Shutdown"
            /\ i = Len(exits)
            /\ entries = i
            /\ pc \in {"exit_loop", "halted"}
            /\ pc = "halted" => panic_msg = "Hypervisor ok!"

C1_Witness ==
    /\ exits # <<>>
    /\ IsResetCall(exits[Len(exits)])
    /\ HasSignature(exits[Len(exits)].pre.gprs)
    /\ pc = "halted"

\* C2 as stated: a reset request with any other reason pair yields Continue
\* with the resume pc unchanged.
C2_OtherResetContinues ==
    \A i \in DOMAIN exits :
        (IsResetCall(exits[i]) /\ ~HasSignature(exits[i].pre.gprs)) =>
            /\ exits[i].outcome = "Continue"
            /\ exits[i].post.sepc = exits[i].pre.sepc

\* C2 amended: a reset request whose reason pair is not (0x6688, 0x1234)
\* fails one of the two assert_eq! checks: the run aborts, the outcome is
\* neither Continue nor Shutdown, the guest is not entered again, and the
\* resume pc and the guest registers are unchanged at the abort.
C2_OtherResetAborts ==
    \A i \in DOMAIN exits :
        (IsResetCall(exits[i]) /\ ~HasSignature(exits[i].pre.gprs)) =>
            AbortedAt(i, {"assertion failed: a0 == 0x6688",
                          "assertion failed: a1 == 0x1234"})

C2_Witness ==
    /\ exits # <<>>
    /\ IsResetCall(exits[Len(exits)])
    /\ exits[Len(exits)].pre.gprs["A0"] = <<0, 0, 0, \h6688>>
    /\ exits[Len(exits)].pre.gprs["A1"] # <<0, 0, 0, \h1234>>
    /\ panic_msg = "assertion failed: a1 == 0x1234"

\* C3: an illegal-instruction exit whose trap value, truncated to 32 bits,
\* is 0xf14025f3 leaves guest A0 = 0x6688 and A1 = 0x1234, the resume pc
\* increased by 4 (modulo 2^64), and the outcome Continue.
C3_SentinelEmulated ==
    \A i \in DOMAIN exits :
        (IsIllegal(exits[i]) /\ IsSentinelWord(exits[i].stval)) =>
            /\ exits[i].post.gprs["A0"] = <<0, 0, 0, \h6688>>
            /\ exits[i].post.gprs["A1"] = <<0, 0, 0, \h1234>>
            /\ IsPlus4(exits[i].pre.sepc, exits[i].post.sepc)
            /\ exits[i].outcome = "Continue"

\* a sentinel word below set upper bits of stval has been emulated
C3_Witness ==
    \E i \in DOMAIN exits :
        /\ IsIllegal(exits[i])
        /\ IsSentinelWord(exits[i].stval)
        /\ exits[i].stval[2] # 0
        /\ exits[i].pre.gprs["A0"] # <<0, 0, 0, \h6688>>
        /\ exits[i].post.sepc = <<0, 0, \h8020, 4>>

\* C4: an illegal-instruction exit with any other instruction word aborts
\* the run: no further guest entry, resume pc and guest registers unchanged.
C4_OtherIllegalAborts ==
    \A i \in DOMAIN exits :
        (IsIllegal(exits[i]) /\ ~IsSentinelWord(exits[i].stval)) =>
            AbortedAt(i, {"Bad instruction"})

\* an instruction word that differs from the sentinel in its upper half only
C4_Witness ==
    /\ exits # <<>>
    /\ IsIllegal(exits[Len(exits)])
    /\ exits[Len(exits)].stval[4] = \h25f3
    /\ exits[Len(exits)].stval[3] # \hf140
    /\ panic_msg = "Bad instruction"

\* C5: after a supervisor-timer-interrupt exit is handled, hvip has the
\* virtual-supervisor-timer pending bit (bit 6) set, sie has the
\* supervisor-timer enable bit (bit 5) clear, the resume pc is unchanged and
\* the outcome is Continue.
C5_TimerForwarded ==
    \A i \in DOMAIN exits :
        exits[i].scause = [interrupt |-> TRUE, code |-> 5] =>
            /\ Bit(exits[i].hvip[4], 6) = 1
            /\ Bit(exits[i].sie[4], 5) = 0
            /\ exits[i].post.sepc = exits[i].pre.sepc
            /\ exits[i].outcome = "Continue"
            /\ i = Len(exits) => hvip = exits[i].hvip /\ sie = exits[i].sie

C5_Witness ==
    /\ exits # <<>>
    /\ exits[Len(exits)].scause = [interrupt |-> TRUE, code |-> 5]
    /\ pc = "run_guest"
    /\ Bit(hvip[4], 6) = 1
    /\ Bit(sie[4], 5) = 0

\* the first exit emulated the sentinel instruction and the second exit is a
\* reset call carrying the shutdown signature
E2EScenario ==
    /\ Len(exits) >= 2
    /\ IsIllegal(exits[1])
    /\ IsSentinelWord(exits[1].stval)
    /\ IsResetCall(exits[2])
    /\ HasSignature(exits[2].pre.gprs)

\* C6: end to end, a guest that executes the sentinel instruction and then
\* issues a reset call with the shutdown signature produces exactly two VM
\* exits, the first with outcome Continue and the second with outcome
\* Shutdown; the guest is not entered a third time, and the only step left
\* to the host is the final panic "Hypervisor ok!" that ends it.
C6_EndToEnd ==
    E2EScenario =>
        /\ Len(exits) = 2
        /\ entries = 2
        /\ exits[1].outcome = "Continue"
        /\ exits[2].outcome = "Shutdown"
        /\ pc \in {"exit_loop", "halted"}
        /\ pc = "exit_loop" => (ENABLED HypervisorOk) /\ ~(ENABLED RunGuest)
        /\ pc = "halted" => panic_msg = "Hypervisor ok!"

C6_Witness ==
    /\ E2EScenario
    /\ exits[1].pre.sepc = <<0, 0, \h8020, 0>>
    /\ exits[2].pre.sepc = <<0, 0, \h8020, 4>>
    /\ panic_msg = "Hypervisor ok!"

\* C7: enter_guest and the dispatcher strictly alternate: the guest entries
\* never run ahead of the handled exits by more than one, main is at the
\* handler exactly when one entry is unhandled, and an exit whose outcome is
\* not Continue (Shutdown or an abort) is the last entry of the run.
C7_StrictAlternation ==
    /\ entries \in {Len(exits), Len(exits) + 1}
    /\ (pc = "vmexit") <=> (entries = Len(exits) + 1)
    /\ \A i \in DOMAIN exits :
        exits[i].outcome # "Continue" =>
            /\ i = Len(exits)
            /\ entries = i
            /\ pc \in {"exit_loop", "halted"}
    /\ pc = "run_guest" =>
        \A i \in DOMAIN exits : exits[i].outcome = "Continue"

\* the guest has been entered again after a Continue
C7_Witness ==
    /\ pc = "vmexit"
    /\ entries = 2
    /\ Len(exits) = 1
    /\ exits[1].outcome = "Continue"

\* the hgatp value for each stage-2 root: mode tag 8 in bits 63..60 and the
\* root's page number (root >> 12) below it
ExpectedHgatp(root) ==
    CASE root = <<0, 0, \h8064, \h1000>> -> <<\h8000, 0, \h0008, \h0641>>
      [] root = <<0, \h0001, \h2345, \h6000>> -> <<\h8000, 0, \h0012, \h3456>>

C9_DecodeFailureAborts ==
    \A i \in DOMAIN exits :
        (IsEcall(exits[i]) /\ ~IsResetCall(exits[i])) =>
            AbortedAt(i, {"bad sbi message! "})

C9_Witness ==
    /\ exits # <<>>
    /\ IsEcall(exits[Len(exits)])
    /\ exits[Len(exits)].pre.gprs["A7"] = <<0, 0, 0, 8>>
    /\ panic_msg = "bad sbi message! "

\* the causes vmexit_handler has an arm for
HandledCauses ==
    {[interrupt |-> FALSE, code |-> 10], [interrupt |-> FALSE, code |-> 2],
     [interrupt |-> FALSE, code |-> 21], [interrupt |-> TRUE, code |-> 5]}

\* C10: an exit with any other cause aborts the run without modifying the
\* guest context and without producing Continue or Shutdown.
C10_UnhandledCauseAborts ==
    \A i \in DOMAIN exits :
        exits[i].scause \notin HandledCauses =>
            /\ AbortedAt(i, {"Unhandled trap"})
            /\ ctx = exits[i].pre

\* an exception with the timer interrupt's code has aborted the run
C10_Witness ==
    /\ exits # <<>>
    /\ exits[Len(exits)].scause = [interrupt |-> FALSE, code |-> 5]
    /\ panic_msg = "Unhandled trap"

\* the exit is a guest-physical load page fault
IsLoadFault(e) == e.scause = [interrupt |-> FALSE, code |-> 21]

\* C11: a load-guest-page-fault exit increases the resume pc by 4 (modulo
\* 2^64) and returns Continue whatever the trap value is, and changes no
\* guest general register.
C11_LoadFaultSkipped ==
    \A i \in DOMAIN exits :
        IsLoadFault(exits[i]) =>
            /\ IsPlus4(exits[i].pre.sepc, exits[i].post.sepc)
            /\ exits[i].outcome = "Continue"
            /\ exits[i].post.gprs = exits[i].pre.gprs

\* two faults at different addresses have both been skipped
C11_Witness ==
    \E i, j \in DOMAIN exits :
        /\ IsLoadFault(exits[i]) /\ IsLoadFault(exits[j])
        /\ exits[i].stval = <<0, 0, 0, \h0040>>
        /\ exits[j].stval = <<0, 0, \h9000, 0>>
        /\ exits[i].post.sepc = <<0, 0, \h8020, 4>>
        /\ exits[j].post.sepc = <<0, 0, \h8020, 8>>

\* main is about to call _run_guest for the first time
FirstEntry == pc = "run_guest" /\ entries = 0

\* C12: at the first enter_guest the guest context has hstatus.SPV (bit 7)
\* and hstatus.SPVP (bit 8) set, sstatus.SPP (bit 8) set, and the resume pc
\* equal to 0x8020_0000.
C12_InitialGuestContext ==
    FirstEntry =>
        /\ Bit(ctx.hstatus[4], 7) = 1
        /\ Bit(ctx.hstatus[4], 8) = 1
        /\ Bit(ctx.sstatus[4], 8) = 1
        /\ ctx.sepc = <<0, 0, \h8020, 0>>

\* the first entry is reached from control registers that had none of the
\* three bits set
C12_Witness ==
    /\ FirstEntry
    /\ sstatus = <<0, 2, 0, \h0002>>
    /\ ctx.sstatus = <<0, 2, 0, \h0102>>
    /\ ctx.hstatus = <<0, 0, 0, \h0180>>

\* the exit emulated the sentinel instruction
IsSentinelExit(e) == IsIllegal(e) /\ IsSentinelWord(e.stval)

\* C16: across one vmexit_handler call the resume pc changes only in the
\* sentinel and the load-page-fault branch, there by +4; general registers
\* change only in the sentinel branch and there only A0 and A1; in every
\* other branch the guest context is unchanged.
C16_DispatcherFrame ==
    \A i \in DOMAIN exits :
        LET e == exits[i]
        IN  /\ IF IsSentinelExit(e) \/ IsLoadFault(e)
               THEN IsPlus4(e.pre.sepc, e.post.sepc)
               ELSE e.post = e.pre
            /\ \A r \in DOMAIN e.pre.gprs :
                (e.post.gprs[r] # e.pre.gprs[r]) =>
                    IsSentinelExit(e) /\ r \in {"A0", "A1"}
            /\ e.post.hstatus = e.pre.hstatus
            /\ e.post.sstatus = e.pre.sstatus

\* one run went through the sentinel, a load fault and a timer interrupt
C16_Witness ==
    \E i, j, k \in DOMAIN exits :
        /\ IsSentinelExit(exits[i])
        /\ exits[i].post.gprs # exits[i].pre.gprs
        /\ IsLoadFault(exits[j])
        /\ exits[k].scause = [interrupt |-> TRUE, code |-> 5]

(***************************************************************************)
(* EarlyAllocator (modules/bump_allocator).                                *)
(*                                                                         *)
(*   [ bytes-used | avail-area | pages-used ]                              *)
(*   start       b_pos        p_pos       end                              *)
(*                                                                         *)
(* usize is scaled down to 6 bits here; isize::MAX, which bounds a Layout,  *)
(* scales with it.  The Ea* operators compute with the arithmetic of a     *)
(* build without overflow checks (the release profile): +, - and * wrap    *)
(* modulo UsizeMod.  In a build with overflow checks the same operations   *)
(* panic where Ea*Overflows holds; the callers below take either build.    *)
(***************************************************************************)
UsizeMod == 2^6

IsizeMax == (UsizeMod \div 2) - 1

Wrap(x) == x % UsizeMod

\* the const generic PAGE_SIZE, scaled
PAGE_SIZE == 4

\* x & !(align - 1), for align a power of two
AlignDown(x, align) == x - (x % align)

Ok(v) == [ok |-> TRUE, val |-> v, err |-> ""]

Err(e) == [ok |-> FALSE, val |-> 0, err |-> e]

\* BaseAllocator::init
EaInit(start, size) ==
    [start |-> start, end |-> Wrap(start + size), b_pos |-> start,
     p_pos |-> Wrap(start + size), count |-> 0]

\* BaseAllocator::add_memory
EaAddMemory(a, start, size) == [ea |-> a, res |-> Err("InvalidParam")]

\* ByteAllocator::alloc
EaAlloc(a, layout) ==
    LET align == layout.align
        size == layout.size
        aligned_b_pos == AlignDown(Wrap(a.b_pos + align - 1), align)
    IN  IF Wrap(aligned_b_pos + size) <= a.p_pos
        THEN [ea |-> [a EXCEPT !.b_pos = Wrap(aligned_b_pos + size),
                               !.count = Wrap(a.count + 1)],
              res |-> Ok(aligned_b_pos)]
        ELSE [ea |-> a, res |-> Err("MemoryOverlap")]

\* an addition of alloc leaves the range of usize
EaAllocOverflows(a, layout) ==
    LET align == layout.align
        size == layout.size
    IN  \/ a.b_pos + align - 1 >= UsizeMod
        \/ AlignDown(Wrap(a.b_pos + align - 1), align) + size >= UsizeMod

\* mutant: every dealloc frees the bytes-used area
M_DeallocAlwaysResets(a) ==
    IF a.count > 0
    THEN [a EXCEPT !.count = a.count - 1, !.b_pos = a.start]
    ELSE a

\* ByteAllocator::dealloc
EaDealloc(a) ==
    IF a.count > 0
    THEN IF a.count - 1 = 0
         THEN [a EXCEPT !.count = 0, !.b_pos = a.start]
         ELSE [a EXCEPT !.count = a.count - 1]
    ELSE a

\* PageAllocator::alloc_pages
EaAllocPages(a, num_pages, align_pow2) ==
    LET total_size == Wrap(num_pages * PAGE_SIZE)
        align == 2^align_pow2
        aligned == AlignDown(Wrap(a.p_pos - total_size), align)
    IN  IF a.b_pos <= aligned
        THEN [ea |-> [a EXCEPT !.p_pos = aligned], res |-> Ok(aligned)]
        ELSE [ea |-> a, res |-> Err("MemoryOverlap")]

\* the multiplication or the subtraction of alloc_pages leaves the range
\* of usize
EaAllocPagesOverflows(a, num_pages, align_pow2) ==
    \/ num_pages * PAGE_SIZE >= UsizeMod
    \/ a.p_pos - Wrap(num_pages * PAGE_SIZE) < 0

\* PageAllocator::dealloc_pages
EaDeallocPages(a, pos, num_pages) == a

\* ByteAllocator::used_bytes, PageAllocator::used_pages
EaUsedBytes(a) == Wrap(a.b_pos - a.start)

EaUsedPages(a) == Wrap(a.end - a.p_pos) \div PAGE_SIZE

(***************************************************************************)
(* The callers of the allocator                                            *)
(***************************************************************************)
\* the number of calls made after init
MaxOps == 4

\* init(start, size): a low region and one in the upper half of the
\* address space
InitArgs == {[start |-> 16, size |-> 32], [start |-> 40, size |-> 20]}

\* Layout: align a power of two, size + align - 1 <= isize::MAX
Layouts ==
    {l \in {[size |-> 0, align |-> 1], [size |-> 3, align |-> 1],
            [size |-> 5, align |-> 4], [size |-> 8, align |-> 8],
            [size |-> IsizeMax, align |-> 1]} :
        l.size + l.align - 1 <= IsizeMax}

\* alloc_pages(num_pages, align_pow2)
PageReqs ==
    {[num_pages |-> 0, align_pow2 |-> 0], [num_pages |-> 1, align_pow2 |-> 0],
     [num_pages |-> 1, align_pow2 |-> 3], [num_pages |-> 2, align_pow2 |-> 2],
     [num_pages |-> 13, align_pow2 |-> 0]}

\* the outcome of a call whose arithmetic overflows in a build with
\* overflow checks
Panic == [ok |-> FALSE, val |-> 0, err |-> "panic: arithmetic overflow"]

Called(h, op, args, res, pre) ==
    [h EXCEPT !.nops = h.nops + 1,
              !.last = [op |-> op, args |-> args, res |-> res, pre |-> pre]]

AllocInitCall ==
    /\ ~ea_hist.inited
    /\ \E r \in InitArgs, checks \in BOOLEAN :
        /\ ea' = EaInit(r.start, r.size)
        /\ ea_hist' = [EaHistNew EXCEPT !.inited = TRUE, !.checks = checks,
                          !.last = [op |-> "init", args |-> r, res |-> Ok(0),
                                    pre |-> ea]]
    /\ UNCHANGED <<vars, hm, hm_hist>>

AllocCall ==
    /\ ea_hist.inited /\ ~ea_hist.panicked /\ ea_hist.nops < MaxOps
    /\ \E l \in Layouts :
        LET panics == ea_hist.checks /\ EaAllocOverflows(ea, l)
            r == IF panics THEN [ea |-> ea, res |-> Panic] ELSE EaAlloc(ea, l)
            h == Called(ea_hist, "alloc", l, r.res, ea)
        IN  /\ ea' = r.ea
            /\ ea_hist' =
                IF panics THEN [h EXCEPT !.panicked = TRUE]
                ELSE IF r.res.ok
                THEN [h EXCEPT !.allocs = h.allocs + 1,
                               !.next_id = h.next_id + 1,
                               !.live = h.live \cup
                                   {[id |-> h.next_id, addr |-> r.res.val,
                                     size |-> l.size, align |-> l.align]}]
                ELSE h
    /\ UNCHANGED <<vars, hm, hm_hist>>

\* dealloc(pos, layout): of a live allocation, or of one that is not live
DeallocCall ==
    /\ ea_hist.inited /\ ~ea_hist.panicked /\ ea_hist.nops < MaxOps
    /\ \E id \in {x.id : x \in ea_hist.live} \cup {0} :
        LET h == Called(ea_hist, "dealloc", id, Ok(0), ea)
        IN  /\ ea' = EaDealloc(ea)
            /\ ea_hist' =
                [h EXCEPT !.deallocs = h.deallocs + 1,
                          !.ignored = h.ignored + (IF ea.count = 0 THEN 1 ELSE 0),
                          !.live = {x \in h.live : x.id # id},
                          !.misuse = h.misuse \/ id = 0]
    /\ UNCHANGED <<vars, hm, hm_hist>>

AllocPagesCall ==
    /\ ea_hist.inited /\ ~ea_hist.panicked /\ ea_hist.nops < MaxOps
    /\ \E q \in PageReqs :
        LET panics == /\ ea_hist.checks
                      /\ EaAllocPagesOverflows(ea, q.num_pages, q.align_pow2)
            r == IF panics THEN [ea |-> ea, res |-> Panic]
                 ELSE EaAllocPages(ea, q.num_pages, q.align_pow2)
            h == Called(ea_hist, "alloc_pages", q, r.res, ea)
        IN  /\ ea' = r.ea
            /\ ea_hist' =
                IF panics THEN [h EXCEPT !.panicked = TRUE]
                ELSE IF r.res.ok
                THEN [h EXCEPT !.pages = h.pages \cup
                          {[addr |-> r.res.val,
                            size |-> q.num_pages * PAGE_SIZE,
                            align |-> 2^q.align_pow2]}]
                ELSE h
    /\ UNCHANGED <<vars, hm, hm_hist>>

DeallocPagesCall ==
    /\ ea_hist.inited /\ ~ea_hist.panicked /\ ea_hist.nops < MaxOps
    /\ \E g \in ea_hist.pages \cup {[addr |-> 0, size |-> PAGE_SIZE, align |-> 1]} :
        /\ ea' = EaDeallocPages(ea, g.addr, g.size \div PAGE_SIZE)
        /\ ea_hist' = Called(ea_hist, "dealloc_pages", g, Ok(0), ea)
    /\ UNCHANGED <<vars, hm, hm_hist>>

AddMemoryCall ==
    /\ ea_hist.inited /\ ~ea_hist.panicked /\ ea_hist.nops < MaxOps
    /\ \E r \in InitArgs :
        LET x == EaAddMemory(ea, r.start, r.size)
        IN  /\ ea' = x.ea
            /\ ea_hist' = Called(ea_hist, "add_memory", r, x.res, ea)
    /\ UNCHANGED <<vars, hm, hm_hist>>

\* the hypervisor's variables while only a library component runs
HypervisorNotStarted ==
    /\ pc = "load"
    /\ ctx = DefaultCtx
    /\ scause = Exception(0)
    /\ stval = W0
    /\ hgatp = W0
    /\ hvip = W0
    /\ sie = W0
    /\ hstatus = W0
    /\ sstatus = W0
    /\ ept_root = W0
    /\ panic_msg = ""
    /\ s2log = <<>>
    /\ entries = 0
    /\ exits = <<>>

AllocInit ==
    /\ AllocatorAsConstructed
    /\ HashMapAsConstructed
    /\ HypervisorNotStarted

AllocNext ==
    \/ AllocInitCall
    \/ AllocCall
    \/ DeallocCall
    \/ AllocPagesCall
    \/ DeallocPagesCall
    \/ AddMemoryCall

SpecAlloc == AllocInit /\ [][AllocNext]_allvars

(***************************************************************************)
(* Properties of the EarlyAllocator.  ea_hist.last is the last call: its   *)
(* arguments, its result and the allocator before it (pre).  Addresses and *)
(* sizes are compared as unbounded integers here.                          *)
(***************************************************************************)
\* C13 as stated: after init and any sequence of calls,
\* start <= b_pos <= p_pos <= end.
C13_LayoutInvariant ==
    ea_hist.inited =>
        /\ ea.start <= ea.b_pos
        /\ ea.b_pos <= ea.p_pos
        /\ ea.p_pos <= ea.end

Max(a, b) == IF a >= b THEN a ELSE b

\* what C14 says about one dealloc: it frees the bytes-used area when it
\* brings count to zero and leaves b_pos alone when count stays above zero
DeallocEffect ==
    ea_hist.last.op = "dealloc" =>
        LET pre == ea_hist.last.pre
        IN  /\ pre.count = 1 => ea.count = 0 /\ ea.b_pos = ea.start
            /\ pre.count > 1 => ea.count = pre.count - 1 /\ ea.b_pos = pre.b_pos

\* C14 as stated: count is the number of successful alloc calls minus the
\* number of dealloc calls since init, never below zero.
C14_CountIsAllocsMinusDeallocs ==
    ea_hist.inited =>
        /\ ea.count = Max(ea_hist.allocs - ea_hist.deallocs, 0)
        /\ DeallocEffect

\* C14 amended: count is the number of successful alloc calls minus the
\* number of dealloc calls made while count was above zero (a dealloc at
\* count zero changes nothing); a dealloc that brings count to zero resets
\* b_pos to start, one that leaves count above zero leaves b_pos unchanged.
C14_CountIsAllocsMinusEffectiveDeallocs ==
    ea_hist.inited =>
        /\ ea.count = ea_hist.allocs - (ea_hist.deallocs - ea_hist.ignored)
        /\ ea.count >= 0
        /\ DeallocEffect
        /\ (ea_hist.last.op = "dealloc" /\ ea_hist.last.pre.count = 0) =>
            ea = ea_hist.last.pre

\* a dealloc left one allocation live and b_pos in place, after an earlier
\* dealloc at count zero had been ignored
C14_Witness ==
    /\ ea_hist.last.op = "dealloc"
    /\ ea_hist.last.pre.count = 2
    /\ ea.count = 1
    /\ ea.b_pos > ea.start
    /\ ea_hist.ignored = 1

\* C15 as stated: dealloc_pages changes nothing, and no call after init
\* increases p_pos, so used_pages never decreases.
C15_PagesNeverFreed ==
    (ea_hist.inited /\ ea_hist.last.op # "init") =>
        /\ ea_hist.last.op = "dealloc_pages" => ea = ea_hist.last.pre
        /\ ea.p_pos <= ea_hist.last.pre.p_pos
        /\ EaUsedPages(ea) >= EaUsedPages(ea_hist.last.pre)

\* [addr, addr + size) as a set of addresses
Range(x) == {a \in x.addr .. (x.addr + x.size - 1) : TRUE}

\* C17 as stated: while every dealloc released a distinct live allocation,
\* live byte allocations are pairwise disjoint and inside [start, p_pos),
\* page regions are inside [p_pos, end), pairwise disjoint and disjoint from
\* the live byte allocations, and every address is aligned as requested.
C17_AllocationsDisjoint ==
    (ea_hist.inited /\ ~ea_hist.misuse) =>
        /\ \A x \in ea_hist.live :
            /\ ea.start <= x.addr /\ x.addr + x.size <= ea.p_pos
            /\ x.addr % x.align = 0
        /\ \A x, y \in ea_hist.live :
            x.id # y.id => Range(x) \cap Range(y) = {}
        /\ \A g \in ea_hist.pages :
            /\ ea.p_pos <= g.addr /\ g.addr + g.size <= ea.end
            /\ g.addr % g.align = 0
            /\ \A x \in ea_hist.live : Range(g) \cap Range(x) = {}
        /\ \A g, k \in ea_hist.pages :
            g # k => Range(g) \cap Range(k) = {}

\* whether the request of the last call fits between b_pos and p_pos
LastFits ==
    LET l == ea_hist.last
    IN  CASE l.op = "alloc" ->
               l.pre.b_pos + ((l.args.align - (l.pre.b_pos % l.args.align))
                                  % l.args.align) + l.args.size <= l.pre.p_pos
          [] l.op = "alloc_pages" ->
               LET top == l.pre.p_pos - l.args.num_pages * PAGE_SIZE
               IN  l.pre.b_pos <= top - (top % (2^l.args.align_pow2))
          [] OTHER -> TRUE

\* C18 as stated: a request that does not fit returns Err(MemoryOverlap)
\* with the allocator unchanged, also when num_pages * PAGE_SIZE exceeds
\* p_pos; add_memory always returns Err(InvalidParam) with the allocator
\* unchanged.
C18_FailuresLeaveStateUnchanged ==
    ea_hist.inited =>
        /\ ~LastFits =>
            /\ ea_hist.last.res = Err("MemoryOverlap")
            /\ ea = ea_hist.last.pre
        /\ ea_hist.last.op = "add_memory" =>
            /\ ea_hist.last.res = Err("InvalidParam")
            /\ ea = ea_hist.last.pre

(***************************************************************************)
(* HashMap (ulib/axstd/src/collections/hashmap.rs): open addressing with   *)
(* linear probing.  A bucket is None or Some((key, value)), written        *)
(* <<key, value>>; buckets[i] of the code is buckets[i + 1] here.  A key   *)
(* is a pair of bytes (u8, u8), whose Hash writes the two bytes in turn.   *)
(***************************************************************************)
Some(v) == <<v>>

\* SimpleHasher::write on a hasher holding h; with two-byte keys the value
\* stays far below 2^64, where wrapping_mul and wrapping_add do not wrap
RECURSIVE SimpleHasherWrite(_, _)
SimpleHasherWrite(h, bytes) ==
    IF bytes = <<>> THEN h
    ELSE SimpleHasherWrite(h * 31 + Head(bytes), Tail(bytes))

\* HashMap::hash
HmHash(m, key) == SimpleHasherWrite(0, key) % Len(m.buckets)

\* the bucket that iteration d (from 0) of a probing loop started at index
\* looks at: index is advanced by (index + 1) % len in each iteration
Probed(m, index, d) == m.buckets[((index + d) % Len(m.buckets)) + 1]

\* iteration d of a probing loop for key leaves the loop (the bucket is
\* None or holds the key) and no iteration before it did
LoopEndsAt(m, key, index, d) ==
    /\ Probed(m, index, d) = None \/ Probed(m, index, d)[1] = key
    /\ \A x \in 0..(d - 1) :
        Probed(m, index, x) # None /\ Probed(m, index, x)[1] # key

\* the loop of insert: for _ in 0..self.buckets.len()
InsertLoop(m, key, value, index) ==
    IF \E d \in 0..(Len(m.buckets) - 1) : LoopEndsAt(m, key, index, d)
    THEN LET d == CHOOSE x \in 0..(Len(m.buckets) - 1) :
                      LoopEndsAt(m, key, index, x)
             at == ((index + d) % Len(m.buckets)) + 1
         IN  IF m.buckets[at] = None
             THEN [m EXCEPT !.buckets[at] = <<key, value>>,
                            !.size = m.size + 1]
             ELSE [m EXCEPT !.buckets[at] = <<key, value>>]
    ELSE [m EXCEPT !.full = TRUE]

RECURSIVE HmInsert(_, _, _)
RECURSIVE HmResize(_)
\* resize: the map m after the loop has inserted old_entries[lo..hi] in
\* order (evaluated in two halves, the first before the second); a panic
\* of insert ends the loop
RECURSIVE Reinserted(_, _, _, _)
Reinserted(m, old_entries, lo, hi) ==
    IF m.full \/ lo > hi THEN m
    ELSE IF lo = hi
    THEN HmInsert(m, old_entries[lo][1], old_entries[lo][2])
    ELSE LET mid == (lo + hi) \div 2
         IN  Reinserted(Reinserted(m, old_entries, lo, mid),
                        old_entries, mid + 1, hi)

\* HashMap::resize; old_buckets.into_iter().flatten() is the sequence of
\* the entries in bucket order
HmResize(m) ==
    LET new_capacity == Len(m.buckets) * 2
        old_entries == SelectSeq(m.buckets, LAMBDA e : e # None)
    IN  Reinserted([m EXCEPT !.buckets = [i \in 1..new_capacity |-> None],
                             !.size = 0],
                   old_entries, 1, Len(old_entries))

\* HashMap::insert
HmInsert(m0, key, value) ==
    LET m == IF m0.size * 10 >= Len(m0.buckets) * 7 THEN HmResize(m0) ELSE m0
    IN  InsertLoop(m, key, value, HmHash(m, key))

\* the loop of get: for _ in 0..self.buckets.len()
GetLoop(m, key, index) ==
    IF \E d \in 0..(Len(m.buckets) - 1) : LoopEndsAt(m, key, index, d)
    THEN LET d == CHOOSE x \in 0..(Len(m.buckets) - 1) :
                      LoopEndsAt(m, key, index, x)
             e == Probed(m, index, d)
         IN  IF e = None THEN None ELSE Some(e[2])
    ELSE None

\* mutant: get looks at the key's home bucket only
M_GetHomeBucketOnly(m, key) ==
    LET e == m.buckets[HmHash(m, key) + 1]
    IN  IF e # None /\ e[1] = key THEN Some(e[2]) ELSE None

\* HashMap::get
HmGet(m, key) == GetLoop(m, key, HmHash(m, key))

\* HashMap::iter, collected: Iter::next skips the empty buckets
HmIter(m) == SelectSeq(m.buckets, LAMBDA e : e # None)

(***************************************************************************)
(* The callers of the HashMap.  A caller inserts the keys of one workload  *)
(* in order, may overwrite some of the keys it has inserted, and reads.    *)
(***************************************************************************)
\* the number of distinct keys a caller inserts; the 46th insert resizes
MaxKeys == 46

Workloads ==
    {"sequential", "one_chain", "wrap_chain", "equal_hash", "scattered"}

\* the key (u8, u8) with hash h
KeyOfHash(h) == <<h \div 31, h % 31>>

\* the i-th key of a workload, i from 0
Key(w, i) ==
    CASE w = "sequential" -> <<0, i>>
      [] w = "one_chain"  -> KeyOfHash(128 * i)
      [] w = "wrap_chain" -> KeyOfHash(64 * i + 63)
      [] w = "equal_hash" -> IF i % 2 = 0 THEN <<i \div 2, 31>>
                             ELSE <<(i + 1) \div 2, 0>>
      [] w = "scattered"  -> KeyOfHash((i * 37) % 200)

\* the keys a caller overwrites
Overwritten(pos) == {i \in 0..(pos - 1) : i % 30 = 0}

\* insert on the reference map
RefInsert(ref, key, value) ==
    [k \in (DOMAIN ref) \cup {key} |-> IF k = key THEN value ELSE ref[k]]

\* get on the reference map
RefGet(ref, key) == IF key \in DOMAIN ref THEN Some(ref[key]) ELSE None

\* insert(key, value) of the next key of the workload
InsertNewCall ==
    /\ ~hm.full /\ hm_hist.pos < MaxKeys
    /\ \E w \in Workloads :
        /\ hm_hist.work \in {"", w}
        /\ LET key == Key(w, hm_hist.pos)
               value == hm_hist.pos
           IN  /\ hm' = HmInsert(hm, key, value)
               /\ hm_hist' = [work |-> w, pos |-> hm_hist.pos + 1,
                              ref |-> RefInsert(hm_hist.ref, key, value),
                              last |-> [op |-> "insert", key |-> key,
                                        res |-> None]]
    /\ UNCHANGED <<vars, ea, ea_hist>>

\* insert(key, value) of a key that is in the map, with another value
InsertAgainCall ==
    /\ ~hm.full
    /\ \E i \in Overwritten(hm_hist.pos) :
        LET key == Key(hm_hist.work, i)
            value == IF hm_hist.ref[key] = -1 THEN -2 ELSE -1
        IN  /\ hm' = HmInsert(hm, key, value)
            /\ hm_hist' = [hm_hist EXCEPT
                              !.ref = RefInsert(hm_hist.ref, key, value),
                              !.last = [op |-> "insert", key |-> key,
                                        res |-> None]]
    /\ UNCHANGED <<vars, ea, ea_hist>>

\* get(key) of the first key, of the last one, of the next one (not in the
\* map, and colliding with those that are) and of a key of no workload
GetCall ==
    /\ ~hm.full /\ hm_hist.work # ""
    /\ \E key \in {Key(hm_hist.work, 0), Key(hm_hist.work, hm_hist.pos - 1),
                   Key(hm_hist.work, hm_hist.pos), <<255, 255>>} :
        /\ hm_hist' = [hm_hist EXCEPT !.last = [op |-> "get", key |-> key,
                                                 res |-> HmGet(hm, key)]]
    /\ UNCHANGED <<vars, ea, ea_hist, hm>>

\* iter(), run to its end
IterCall ==
    /\ ~hm.full /\ hm_hist.work # ""
    /\ hm_hist' = [hm_hist EXCEPT !.last = [op |-> "iter", key |-> None,
                                             res |-> HmIter(hm)]]
    /\ UNCHANGED <<vars, ea, ea_hist, hm>>

MapInit ==
    /\ HashMapAsConstructed
    /\ AllocatorAsConstructed
    /\ HypervisorNotStarted

MapNext ==
    \/ InsertNewCall
    \/ InsertAgainCall
    \/ GetCall
    \/ IterCall

SpecMap == MapInit /\ [][MapNext]_allvars

(***************************************************************************)
(* Properties of the HashMap                                               *)
(***************************************************************************)
\* the keys get is asked for: those of the workload, inserted or not yet,
\* and a key of no workload
AskedKeys ==
    {Key(w, i) : w \in (IF hm_hist.work = "" THEN Workloads
                        ELSE {hm_hist.work}), i \in 0..(MaxKeys + 1)}
        \cup {<<255, 255>>}

\* a sequence of pairs holds each pair of the reference map exactly once,
\* and nothing else
YieldsEachOnce(pairs, ref) ==
    /\ Len(pairs) = Cardinality(DOMAIN ref)
    /\ \A k \in DOMAIN ref :
        \E i \in 1..Len(pairs) : pairs[i] = <<k, ref[k]>>

\* C19: under any sequence of inserts, through resizes and collisions, the
\* map behaves like a reference map: get(k) is the value of the most recent
\* insert of k and None for a key never inserted, size is the number of
\* distinct keys inserted, and iter yields each stored pair exactly once.
C19_BehavesLikeReferenceMap ==
    /\ ~hm.full
    /\ \A k \in AskedKeys : HmGet(hm, k) = RefGet(hm_hist.ref, k)
    /\ hm.size = Cardinality(DOMAIN hm_hist.ref)
    /\ YieldsEachOnce(HmIter(hm), hm_hist.ref)
    /\ hm_hist.last.op = "get" =>
        hm_hist.last.res = RefGet(hm_hist.ref, hm_hist.last.key)
    /\ hm_hist.last.op = "iter" =>
        YieldsEachOnce(hm_hist.last.res, hm_hist.ref)

\* after a resize, with a key that probing moved off its home bucket and a
\* key that was overwritten twice, iter has run over the map
C19_Witness ==
    /\ Len(hm.buckets) = 2 * INITIAL_CAPACITY
    /\ hm_hist.last.op = "iter"
    /\ Len(hm_hist.last.res) = MaxKeys
    /\ \E i \in 1..Len(hm.buckets) :
        /\ hm.buckets[i] # None
        /\ HmHash(hm, hm.buckets[i][1]) # i - 1
    /\ \E k \in DOMAIN hm_hist.ref : hm_hist.ref[k] = -2

====
